---- MODULE Spec2Model ----
(***************************************************************************)
(* The theme builder's App component (src/unnamed/part_001): the live      *)
(* configuration (theme, layout), the undo/redo history, the file import   *)
(* and the AI auto-configuration, as a state machine.                      *)
(*                                                                         *)
(* Objects are modelled with their identity: a theme object, a layout      *)
(* array and a section item each carry a `ref` (the address of the         *)
(* JavaScript object), so that sharing between the live state and stored   *)
(* snapshots can be stated.  JSON.stringify forgets identity and           *)
(* JSON.parse allocates new objects.                                       *)
(*                                                                         *)
(* Every handler captures the theme and layout of the render in which it   *)
(* was created.  A synchronous handler runs in the latest render, so what  *)
(* it captured is the live state.  An asynchronous handler (the            *)
(* continuation after `await`, the FileReader's onload) keeps what it      *)
(* captured when it was started: it is stored with the pending call.       *)
(***************************************************************************)
EXTENDS Integers, Sequences, FiniteSets, TLC

VARIABLES theme, layout, history, promptInput, isAutoConfiguring,
          autoCalls, readers, alerts, last, log, steps, others,
          generatedCode, isGenerating, activeTab, genCalls, downloads,
          genLog, run

vars == <<theme, layout, history, promptInput, isAutoConfiguring,
          autoCalls, readers, alerts, last, log, steps, others,
          generatedCode, isGenerating, activeTab, genCalls, downloads,
          genLog, run>>

\* the state of the code generation and of the export
genVars == <<generatedCode, isGenerating, activeTab, genCalls, downloads, genLog>>

(* ------------------------------ bounds --------------------------------- *)

\* handlers run in a behaviour of Spec
MaxSteps == 4

\* handlers run in a behaviour of SpecDeep
MaxDeepSteps == 7

\* user events in a behaviour of SpecAI (completions come on top)
MaxEvents == 4

\* code generation calls outstanding together
MaxGenCalls == 2

\* files exported in a behaviour
MaxDownloads == 1
\* handlers run in a behaviour of SpecLong
MaxLongSteps == 34
\* presses of the dark-mode button that open a behaviour of SpecLong
QuietSteps == 28
\* handlers other than the dark-mode button in a behaviour of SpecLong
MaxOthers == 3
\* FileReaders reading at the same time
MaxReaders == 1

(* ----------------------------- constants ------------------------------- *)

\* if (newPast.length > 30) newPast.shift()
HistoryLimit == 30

DEFAULT_THEME ==
    [primaryColor |-> "#3b82f6", borderRadius |-> "16px",
     stylePreset |-> "modern", darkMode |-> FALSE, fontFamily |-> "Inter"]

\* the three sections of useState<ComponentItem[]>([...])
DefaultLayout ==
    << [id |-> "1", type |-> "header"],
       [id |-> "2", type |-> "hero"],
       [id |-> "3", type |-> "features"] >>

EmptyObj == [k \in {} |-> ""]

(* ------------------------- objects and JSON ---------------------------- *)

\* a theme object at address r
ThemeObj(r, v) == [ref |-> r, val |-> v]

\* a section item object at address r
ItemObj(r, v) == [ref |-> r, id |-> v.id, type |-> v.type]

\* a layout array at address r whose items live at the addresses rs
LayoutObj(r, rs, vs) ==
    [ref |-> r, items |-> [i \in 1..Len(vs) |-> ItemObj(rs[i], vs[i])]]

\* JSON.stringify of a theme object: its fields, without its identity
StringifyTheme(t) == t.val

\* JSON.stringify of a layout array: the items' fields, in order
StringifyLayout(l) ==
    [i \in 1..Len(l.items) |-> [id |-> l.items[i].id, type |-> l.items[i].type]]

\* JSON.parse of a theme: a new object at rs[1]
ParseTheme(v, rs) == ThemeObj(rs[1], v)

\* JSON.parse of a layout: a new array at rs[1], new items at rs[2..]
ParseLayout(vs, rs) == LayoutObj(rs[1], Tail(rs), vs)

\* the number of objects JSON.parse allocates for a snapshot of this layout
CopySize(l) == 2 + Len(l.items)

\* a mutant: the objects are stored as they are
ShallowCopy(t, l, rs) == [theme |-> t, layout |-> l]

\* { theme: JSON.parse(JSON.stringify(theme)),
\*   layout: JSON.parse(JSON.stringify(layout)) }, allocated at rs
DeepCopy(t, l, rs) ==
    [theme |-> ParseTheme(StringifyTheme(t), rs),
     layout |-> ParseLayout(StringifyLayout(l), Tail(rs))]

\* the value of a snapshot: what JSON.stringify shows of it
Val(s) == [theme |-> StringifyTheme(s.theme), layout |-> StringifyLayout(s.layout)]

Vals(ss) == [i \in 1..Len(ss) |-> Val(ss[i])]

Live == [theme |-> theme, layout |-> layout]

(* ------------------------------ the heap ------------------------------- *)

ItemRefs(l) == {l.items[i].ref : i \in 1..Len(l.items)}

SnapRefs(s) == {s.theme.ref, s.layout.ref} \cup ItemRefs(s.layout)

SeqRefs(ss) == UNION {SnapRefs(ss[i]) : i \in 1..Len(ss)}

\* every address a live object, a stored snapshot or a pending closure holds
UsedRefs ==
    SnapRefs(Live) \cup SeqRefs(history.past) \cup SeqRefs(history.future)
        \cup SeqRefs(autoCalls) \cup SeqRefs(readers)

RECURSIVE TakeMin(_, _)
TakeMin(S, n) ==
    IF n = 0 THEN <<>>
    ELSE LET m == CHOOSE x \in S : \A y \in S : x <= y
         IN  <<m>> \o TakeMin(S \ {m}, n - 1)

\* n addresses no object of the state has
Alloc(n) == TakeMin((0..(Cardinality(UsedRefs) + n)) \ UsedRefs, n)

Drop(s, n) == SubSeq(s, n + 1, Len(s))

(* ------------------------------ inputs --------------------------------- *)

\* a string is the sequence of its characters
Trim(s) ==
    LET keep == {i \in 1..Len(s) : s[i] # " "}
    IN  IF keep = {} THEN <<>>
        ELSE LET lo == CHOOSE i \in keep : \A j \in keep : i <= j
                 hi == CHOOSE i \in keep : \A j \in keep : j <= i
             IN  SubSeq(s, lo, hi)

Prompts == { <<>>, <<" ">>, <<"c">> }

DarkOf(v) == IF "darkMode" \in DOMAIN v THEN v.darkMode ELSE FALSE

\* the updates the controls pass to updateTheme, and the empty update
ThemeUpdates(v) ==
    { [darkMode |-> ~DarkOf(v)], [primaryColor |-> "#ff0055"], EmptyObj }

AddTypes == {"pricing", "hero"}

\* what Math.random().toString(36).substr(2, 9) may return
RandomIds == {"r1", "r2"}

\* the ids a removal is asked for: those of the layout and one no item has
RemoveIds(l) == {l.items[i].id : i \in 1..Len(l.items)} \cup {"zz"}

ImportedTheme ==
    [primaryColor |-> "#10b981", borderRadius |-> "8px",
     stylePreset |-> "glass", darkMode |-> TRUE, fontFamily |-> "Roboto"]

ImportedLayout == << [id |-> "1", type |-> "hero"], [id |-> "1", type |-> "footer"] >>

\* the text of a chosen file: not JSON, the JSON text null, or a JSON object
Documents ==
    { [kind |-> "garbage"],
      [kind |-> "null"],
      [kind |-> "json", data |-> [theme |-> ImportedTheme]],
      [kind |-> "json", data |-> [layout |-> ImportedLayout]],
      [kind |-> "json", data |-> [theme |-> ImportedTheme, layout |-> ImportedLayout]] }

\* what generateContent does: it throws, or it answers with an empty text,
\* with a text that is not JSON, or with the text of the JSON object `json`
Responses ==
    { [kind |-> "throws"],
      [kind |-> "garbage"],
      [kind |-> "empty"],
      [kind |-> "json", json |-> [primaryColor |-> "#ff0055", borderRadius |-> "99px",
                                  stylePreset |-> "brutal", darkMode |-> FALSE]],
      [kind |-> "json", json |-> [recommendedComponents |-> <<"header", "pricing">>]],
      [kind |-> "json", json |-> [recommendedComponents |-> <<>>]],
      [kind |-> "json", json |-> [primaryColor |-> "#ff0055", borderRadius |-> "99px",
                                  stylePreset |-> "brutal", darkMode |-> FALSE,
                                  recommendedComponents |-> <<>>]],
      [kind |-> "json", json |-> [primaryColor |-> "#6366f1",
                                  recommendedComponents |-> <<"hero">>]] }

(* --------------------------- pure functions ---------------------------- *)

\* a mutant: setTheme(updates), the other fields are lost
MergeReplace(prev, updates) == updates

\* { ...prev, ...updates }
Merge(prev, updates) ==
    [f \in DOMAIN prev \cup DOMAIN updates |->
        IF f \in DOMAIN updates THEN updates[f] ELSE prev[f]]

\* a mutant: the oldest entry is never dropped
NoShift(newPast) == newPast

\* if (newPast.length > 30) newPast.shift()
Shift(newPast) == IF Len(newPast) > HistoryLimit THEN Tail(newPast) ELSE newPast

\* a mutant: the redo branch survives a checkpoint
SaveKeepingFuture(t, l, prev, rs) ==
    [past |-> Shift(Append(prev.past, DeepCopy(t, l, rs))), future |-> prev.future]

\* a mutant: a checkpoint equal to the newest entry of past is not stored
SaveCoalescing(t, l, prev, rs) ==
    IF prev.past # <<>> /\ Val(prev.past[Len(prev.past)]) = Val([theme |-> t, layout |-> l])
    THEN [past |-> prev.past, future |-> <<>>]
    ELSE [past |-> Shift(Append(prev.past, DeepCopy(t, l, rs))), future |-> <<>>]

\* saveToHistory: the updater given to setHistory, applied to the history it
\* finds (prev), with the theme and layout the calling handler captured
saveToHistory(t, l, prev, rs) ==
    [past |-> Shift(Append(prev.past, DeepCopy(t, l, rs))), future |-> <<>>]

\* autoConfigureTheme: the fields of the answer, or {} when generateContent
\* or JSON.parse throws; an absent field is undefined
autoConfigureTheme(resp) ==
    IF resp.kind \in {"throws", "garbage"} THEN EmptyObj
    ELSE LET j == IF resp.kind = "empty" THEN EmptyObj ELSE resp.json   \* response.text || "{}"
             keys == DOMAIN j \cap {"primaryColor", "stylePreset", "borderRadius", "darkMode"}
             comp == IF "recommendedComponents" \in DOMAIN j THEN {"components"} ELSE {}
         IN  [k \in keys \cup comp |->
                 IF k = "components" THEN j.recommendedComponents ELSE j[k]]

HasColor(config) == "primaryColor" \in DOMAIN config /\ config.primaryColor # ""

\* a mutant: an empty list of sections counts as a recommendation
HasComponentsLoose(config) == "components" \in DOMAIN config

HasComponents(config) == "components" \in DOMAIN config /\ Len(config.components) > 0

\* config[k] || d, for a string field: undefined and "" give d
OrElse(config, k, d) == IF k \in DOMAIN config /\ config[k] # "" THEN config[k] ELSE d

\* config[k] ?? d: only undefined gives d
Nullish(config, k, d) == IF k \in DOMAIN config THEN config[k] ELSE d

RemoveAt(s, i) == SubSeq(s, 1, i - 1) \o SubSeq(s, i + 1, Len(s))

(* ------------------------------- ghosts -------------------------------- *)

\* what the handler `op`, called with arg, found: the values of the live
\* snapshot and of the history, and how many alerts had been shown
Did(op, arg) ==
    [op |-> op, arg |-> arg, live |-> Val(Live),
     past |-> Vals(history.past), future |-> Vals(history.future),
     alerts |-> Len(alerts)]

\* the same for a handler without arguments
Pre(op) == Did(op, <<>>)

\* a checkpointed mutation: the live snapshot it found joins the log
Logged == [log EXCEPT !.pre = Append(@, Val(Live))]

\* an undo or a redo ends the run of consecutive mutations
Broken == [log EXCEPT !.pure = FALSE]

(* ------------------------------ handlers ------------------------------- *)

Init ==
    /\ theme = ThemeObj(0, DEFAULT_THEME)
    /\ layout = LayoutObj(1, <<2, 3, 4>>, DefaultLayout)
    /\ history = [past |-> <<>>, future |-> <<>>]
    /\ promptInput = <<>>
    /\ isAutoConfiguring = FALSE
    /\ autoCalls = <<>>
    /\ readers = <<>>
    /\ alerts = <<>>
    /\ last = Pre("init")
    /\ log = [pure |-> TRUE, pre |-> <<>>]
    /\ steps = 0
    /\ others = 0
    /\ generatedCode = ""
    /\ isGenerating = FALSE
    /\ activeTab = "editor"
    /\ genCalls = <<>>
    /\ downloads = <<>>
    /\ genLog = [launched |-> 0, done |-> <<>>]
    /\ run = [base |-> <<>>, lives |-> <<>>, redos |-> 0]

\* a mutant: the checkpoint is taken after the edit
updateThemeSaveAfter(updates) ==
    LET n      == CopySize(layout)
        rs     == Alloc(n + 1)
        edited == ThemeObj(rs[n + 1], Merge(theme.val, updates))
    IN  /\ history' = saveToHistory(edited, layout, history, rs)
        /\ theme' = edited
        /\ last' = Did("updateTheme", updates)
        /\ log' = Logged
        /\ UNCHANGED <<layout, promptInput, isAutoConfiguring, autoCalls, readers, alerts>>

updateTheme(updates) ==
    LET n  == CopySize(layout)
        rs == Alloc(n + 1)
    IN  /\ history' = saveToHistory(theme, layout, history, rs)
        /\ theme' = ThemeObj(rs[n + 1], Merge(theme.val, updates))
        /\ last' = Did("updateTheme", updates)
        /\ log' = Logged
        /\ UNCHANGED <<layout, promptInput, isAutoConfiguring, autoCalls, readers, alerts>>

\* a mutant: the new section is put first
addComponentPrepend(type, id) ==
    LET n  == CopySize(layout)
        rs == Alloc(n + 2)
    IN  /\ history' = saveToHistory(theme, layout, history, rs)
        /\ layout' = [ref |-> rs[n + 1],
                      items |-> <<ItemObj(rs[n + 2], [id |-> id, type |-> type])>>
                                    \o layout.items]
        /\ last' = Did("addComponent", [type |-> type, id |-> id])
        /\ log' = Logged
        /\ UNCHANGED <<theme, promptInput, isAutoConfiguring, autoCalls, readers, alerts>>

addComponent(type, id) ==
    LET n  == CopySize(layout)
        rs == Alloc(n + 2)
    IN  /\ history' = saveToHistory(theme, layout, history, rs)
        /\ layout' = [ref |-> rs[n + 1],
                      items |-> Append(layout.items,
                                       ItemObj(rs[n + 2], [id |-> id, type |-> type]))]
        /\ last' = Did("addComponent", [type |-> type, id |-> id])
        /\ log' = Logged
        /\ UNCHANGED <<theme, promptInput, isAutoConfiguring, autoCalls, readers, alerts>>

\* a mutant: layout.splice(layout.findIndex(..), 1); an id no item has gives
\* index -1, which removes the last item
removeComponentSplice(id) ==
    LET n     == CopySize(layout)
        rs    == Alloc(n + 1)
        found == {i \in 1..Len(layout.items) : layout.items[i].id = id}
        at    == IF found = {} THEN Len(layout.items)
                 ELSE CHOOSE i \in found : \A j \in found : i <= j
    IN  /\ history' = saveToHistory(theme, layout, history, rs)
        /\ layout' = [ref |-> rs[n + 1], items |-> RemoveAt(layout.items, at)]
        /\ last' = Did("removeComponent", id)
        /\ log' = Logged
        /\ UNCHANGED <<theme, promptInput, isAutoConfiguring, autoCalls, readers, alerts>>

removeComponent(id) ==
    LET n  == CopySize(layout)
        rs == Alloc(n + 1)
    IN  /\ history' = saveToHistory(theme, layout, history, rs)
        /\ layout' = [ref |-> rs[n + 1],
                      items |-> SelectSeq(layout.items, LAMBDA item : item.id # id)]
        /\ last' = Did("removeComponent", id)
        /\ log' = Logged
        /\ UNCHANGED <<theme, promptInput, isAutoConfiguring, autoCalls, readers, alerts>>

\* a mutant: setLayout(previous.layout) is missing
undoThemeOnly ==
    /\ last' = Pre("undo")
    /\ IF Len(history.past) = 0
       THEN UNCHANGED <<theme, layout, history, log>>
       ELSE LET previous == history.past[Len(history.past)]
                newPast  == SubSeq(history.past, 1, Len(history.past) - 1)
                current  == DeepCopy(theme, layout, Alloc(CopySize(layout)))
            IN  /\ history' = [past |-> newPast, future |-> <<current>> \o history.future]
                /\ theme' = previous.theme
                /\ UNCHANGED layout
                /\ log' = Broken
    /\ UNCHANGED <<promptInput, isAutoConfiguring, autoCalls, readers, alerts>>

\* a mutant: the snapshot that is undone is not kept
undoDropsLive ==
    /\ last' = Pre("undo")
    /\ IF Len(history.past) = 0
       THEN UNCHANGED <<theme, layout, history, log>>
       ELSE LET previous == history.past[Len(history.past)]
                newPast  == SubSeq(history.past, 1, Len(history.past) - 1)
                current  == DeepCopy(theme, layout, Alloc(CopySize(layout)))
            IN  /\ history' = [past |-> newPast, future |-> history.future]
                /\ theme' = previous.theme
                /\ layout' = previous.layout
                /\ log' = Broken
    /\ UNCHANGED <<promptInput, isAutoConfiguring, autoCalls, readers, alerts>>

\* a mutant: the undone snapshot goes to the end of future
undoToEnd ==
    /\ last' = Pre("undo")
    /\ IF Len(history.past) = 0
       THEN UNCHANGED <<theme, layout, history, log>>
       ELSE LET previous == history.past[Len(history.past)]
                newPast  == SubSeq(history.past, 1, Len(history.past) - 1)
                current  == DeepCopy(theme, layout, Alloc(CopySize(layout)))
            IN  /\ history' = [past |-> newPast, future |-> Append(history.future, current)]
                /\ theme' = previous.theme
                /\ layout' = previous.layout
                /\ log' = Broken
    /\ UNCHANGED <<promptInput, isAutoConfiguring, autoCalls, readers, alerts>>

undo ==
    /\ last' = Pre("undo")
    /\ IF Len(history.past) = 0
       THEN UNCHANGED <<theme, layout, history, log>>
       ELSE LET previous == history.past[Len(history.past)]
                newPast  == SubSeq(history.past, 1, Len(history.past) - 1)
                current  == DeepCopy(theme, layout, Alloc(CopySize(layout)))
            IN  /\ history' = [past |-> newPast, future |-> <<current>> \o history.future]
                /\ theme' = previous.theme
                /\ layout' = previous.layout
                /\ log' = Broken
    /\ UNCHANGED <<promptInput, isAutoConfiguring, autoCalls, readers, alerts>>

\* a mutant: the entry redone is the last of future
redoFromEnd ==
    /\ last' = Pre("redo")
    /\ IF Len(history.future) = 0
       THEN UNCHANGED <<theme, layout, history, log>>
       ELSE LET next      == history.future[Len(history.future)]
                newFuture == SubSeq(history.future, 1, Len(history.future) - 1)
                current   == DeepCopy(theme, layout, Alloc(CopySize(layout)))
            IN  /\ history' = [past |-> Append(history.past, current), future |-> newFuture]
                /\ theme' = next.theme
                /\ layout' = next.layout
                /\ log' = Broken
    /\ UNCHANGED <<promptInput, isAutoConfiguring, autoCalls, readers, alerts>>

\* a mutant: the entry redone stays in future
redoKeepFuture ==
    /\ last' = Pre("redo")
    /\ IF Len(history.future) = 0
       THEN UNCHANGED <<theme, layout, history, log>>
       ELSE LET next      == history.future[1]
                newFuture == Tail(history.future)
                current   == DeepCopy(theme, layout, Alloc(CopySize(layout)))
            IN  /\ history' = [past |-> Append(history.past, current), future |-> history.future]
                /\ theme' = next.theme
                /\ layout' = next.layout
                /\ log' = Broken
    /\ UNCHANGED <<promptInput, isAutoConfiguring, autoCalls, readers, alerts>>

\* a mutant: no guard; with nothing to redo the live snapshot is still pushed
redoUnguarded ==
    /\ last' = Pre("redo")
    /\ LET current == DeepCopy(theme, layout, Alloc(CopySize(layout)))
       IN  IF Len(history.future) = 0
           THEN /\ history' = [past |-> Append(history.past, current), future |-> <<>>]
                /\ UNCHANGED <<theme, layout, log>>
           ELSE /\ history' = [past |-> Append(history.past, current),
                               future |-> Tail(history.future)]
                /\ theme' = history.future[1].theme
                /\ layout' = history.future[1].layout
                /\ log' = Broken
    /\ UNCHANGED <<promptInput, isAutoConfiguring, autoCalls, readers, alerts>>

\* a mutant: the live snapshot is not pushed onto past
redoWithoutPush ==
    /\ last' = Pre("redo")
    /\ IF Len(history.future) = 0
       THEN UNCHANGED <<theme, layout, history, log>>
       ELSE /\ history' = [past |-> history.past, future |-> Tail(history.future)]
            /\ theme' = history.future[1].theme
            /\ layout' = history.future[1].layout
            /\ log' = Broken
    /\ UNCHANGED <<promptInput, isAutoConfiguring, autoCalls, readers, alerts>>

redo ==
    /\ last' = Pre("redo")
    /\ IF Len(history.future) = 0
       THEN UNCHANGED <<theme, layout, history, log>>
       ELSE LET next      == history.future[1]
                newFuture == Tail(history.future)
                current   == DeepCopy(theme, layout, Alloc(CopySize(layout)))
            IN  /\ history' = [past |-> Append(history.past, current), future |-> newFuture]
                /\ theme' = next.theme
                /\ layout' = next.layout
                /\ log' = Broken
    /\ UNCHANGED <<promptInput, isAutoConfiguring, autoCalls, readers, alerts>>

setPromptInput(value) ==
    /\ promptInput' = value
    /\ last' = Did("setPromptInput", value)
    /\ UNCHANGED <<theme, layout, history, isAutoConfiguring, autoCalls, readers, alerts, log>>

\* handleFileImport: a file was chosen; its FileReader starts reading.  The
\* onload callback is created here, in this render.
handleFileImport ==
    /\ Len(readers) < MaxReaders
    /\ readers' = Append(readers, [theme |-> theme, layout |-> layout])
    /\ last' = Pre("handleFileImport")
    /\ UNCHANGED <<theme, layout, history, promptInput, isAutoConfiguring, autoCalls, alerts, log>>

\* a mutant: whatever part of the document is there is applied
onloadPartial(i, doc) ==
    LET reader   == readers[i]
        hasTheme  == doc.kind = "json" /\ "theme" \in DOMAIN doc.data
        hasLayout == doc.kind = "json" /\ "layout" \in DOMAIN doc.data
        n  == CopySize(reader.layout)
        rs == Alloc(n + 2 + (IF hasLayout THEN Len(doc.data.layout) ELSE 0))
    IN  /\ readers' = RemoveAt(readers, i)
        /\ IF hasTheme \/ hasLayout
           THEN /\ history' = saveToHistory(reader.theme, reader.layout, history, rs)
                /\ theme' = IF hasTheme THEN ParseTheme(doc.data.theme, Drop(rs, n)) ELSE theme
                /\ layout' = IF hasLayout THEN ParseLayout(doc.data.layout, Drop(rs, n + 1))
                             ELSE layout
                /\ last' = Did(IF hasTheme /\ hasLayout THEN "import" ELSE "importInvalid", doc)
                /\ UNCHANGED alerts
                /\ log' = Logged
           ELSE /\ last' = Did("importFailed", doc)
                /\ alerts' = Append(alerts, "Failed to parse file")
                /\ UNCHANGED <<theme, layout, history, log>>
        /\ UNCHANGED <<promptInput, isAutoConfiguring, autoCalls>>

\* reader.onload of the i-th pending reader, the file's text being doc
onload(i, doc) ==
    LET reader   == readers[i]
        accepted == /\ doc.kind = "json"
                    /\ "theme" \in DOMAIN doc.data
                    /\ "layout" \in DOMAIN doc.data
    IN  /\ readers' = RemoveAt(readers, i)
        /\ IF accepted
           THEN LET n  == CopySize(reader.layout)
                    rs == Alloc(n + 2 + Len(doc.data.layout))
                IN  /\ history' = saveToHistory(reader.theme, reader.layout, history, rs)
                    /\ theme' = ParseTheme(doc.data.theme, Drop(rs, n))
                    /\ layout' = ParseLayout(doc.data.layout, Drop(rs, n + 1))
                    /\ last' = Did("import", doc)
                    /\ UNCHANGED alerts
                    /\ log' = Logged
           ELSE /\ last' = Did(IF doc.kind = "json" THEN "importInvalid" ELSE "importFailed", doc)
                /\ alerts' = Append(alerts,
                       IF doc.kind = "json"
                       THEN "Invalid configuration file. Missing theme or layout data."
                       ELSE "Failed to parse file")
                /\ UNCHANGED <<theme, layout, history, log>>
        /\ UNCHANGED <<promptInput, isAutoConfiguring, autoCalls>>

\* a mutant: the button is not disabled while a call is outstanding
handleAutoConfigUnguarded(client) ==
    /\ Trim(promptInput) # <<>>
    /\ isAutoConfiguring' = TRUE
    /\ autoCalls' = IF client = "ok"
                    THEN Append(autoCalls, [theme |-> theme, layout |-> layout])
                    ELSE autoCalls
    /\ last' = Did("handleAutoConfig", client)
    /\ UNCHANGED <<theme, layout, history, promptInput, readers, alerts, log>>

\* getGeminiClient: new GoogleGenAI(...) gives a client or throws
Clients == {"ok", "throws"}

\* handleAutoConfig up to its await; the button that calls it is disabled
\* while isAutoConfiguring || !promptInput.trim().  autoConfigureTheme makes
\* its client before its try block: when that throws, the promise is
\* rejected, the await throws and the rest of handleAutoConfig never runs.
handleAutoConfig(client) ==
    /\ ~isAutoConfiguring
    /\ Trim(promptInput) # <<>>
    /\ isAutoConfiguring' = TRUE
    /\ autoCalls' = IF client = "ok"
                    THEN Append(autoCalls, [theme |-> theme, layout |-> layout])
                    ELSE autoCalls
    /\ last' = Did("handleAutoConfig", client)
    /\ UNCHANGED <<theme, layout, history, promptInput, readers, alerts, log>>

(* ------------------------ code generation, export ---------------------- *)

\* the texts generateContent answers with
Codes == {"<A/>"}

\* what generateContent does for generateSiteCode: it answers with a text,
\* with no text, or it throws
GenOutcomes ==
    {[kind |-> "text", text |-> c] : c \in Codes} \cup {[kind |-> "empty"], [kind |-> "throws"]}

\* promptInput || "Create a standard landing page."
PromptOr(value) == IF value = <<>> THEN <<"Create a standard landing page.">> ELSE value

\* generateSiteCode, from its try block on
generateSiteCode(t, components, promptText, outcome) ==
    IF outcome.kind = "throws"
    THEN "// Error calling Gemini API. Please check your API Key."
    ELSE IF outcome.kind = "text" /\ outcome.text # ""
    THEN outcome.text
    ELSE "// Error generating code."

\* handleGenerateCode up to its await.  generateSiteCode makes its client
\* before its try block: when that throws, the await throws and the rest of
\* handleGenerateCode never runs.
handleGenerateCode(client) ==
    /\ Len(genCalls) < MaxGenCalls
    /\ isGenerating' = TRUE
    /\ activeTab' = "code"
    /\ genCalls' = IF client = "ok"
                   THEN Append(genCalls,
                               [theme |-> StringifyTheme(theme),
                                components |-> StringifyLayout(layout),
                                promptText |-> PromptOr(promptInput),
                                n |-> genLog.launched + 1])
                   ELSE genCalls
    /\ genLog' = [genLog EXCEPT !.launched = @ + 1]
    /\ last' = Did("handleGenerateCode", client)
    /\ UNCHANGED <<theme, layout, history, promptInput, isAutoConfiguring,
                   autoCalls, readers, alerts, log, generatedCode, downloads>>

\* a mutant: the answer of a call is shown only when no later call was made
generatedLatestOnly(i, outcome) ==
    LET call == genCalls[i]
        code == generateSiteCode(call.theme, call.components, call.promptText, outcome)
    IN  /\ generatedCode' = IF call.n = genLog.launched THEN code ELSE generatedCode
        /\ isGenerating' = FALSE
        /\ genCalls' = RemoveAt(genCalls, i)
        /\ genLog' = [genLog EXCEPT !.done = Append(@, [n |-> call.n, code |-> code])]
        /\ last' = Did("generated", [n |-> call.n, outcome |-> outcome])
        /\ UNCHANGED <<theme, layout, history, promptInput, isAutoConfiguring,
                       autoCalls, readers, alerts, log, activeTab, downloads>>

\* a mutant: the generated configuration is made live
generatedApplies(i, outcome) ==
    LET call == genCalls[i]
        code == generateSiteCode(call.theme, call.components, call.promptText, outcome)
    IN  /\ generatedCode' = code
        /\ isGenerating' = FALSE
        /\ genCalls' = RemoveAt(genCalls, i)
        /\ genLog' = [genLog EXCEPT !.done = Append(@, [n |-> call.n, code |-> code])]
        /\ last' = Did("generated", [n |-> call.n, outcome |-> outcome])
        /\ theme' = ThemeObj(theme.ref, call.theme)
        /\ UNCHANGED <<layout, history, promptInput, isAutoConfiguring,
                       autoCalls, readers, alerts, log, activeTab, downloads>>

\* handleGenerateCode after its await: the i-th pending call, generateContent
\* having done outcome
generated(i, outcome) ==
    LET call == genCalls[i]
        code == generateSiteCode(call.theme, call.components, call.promptText, outcome)
    IN  /\ generatedCode' = code
        /\ isGenerating' = FALSE
        /\ genCalls' = RemoveAt(genCalls, i)
        /\ genLog' = [genLog EXCEPT !.done = Append(@, [n |-> call.n, code |-> code])]
        /\ last' = Did("generated", [n |-> call.n, outcome |-> outcome])
        /\ UNCHANGED <<theme, layout, history, promptInput, isAutoConfiguring,
                       autoCalls, readers, alerts, log, activeTab, downloads>>

\* handleExport: the live snapshot as a JSON text, in a file
handleExport ==
    /\ Len(downloads) < MaxDownloads
    /\ downloads' = Append(downloads, Val(Live))
    /\ last' = Pre("handleExport")
    /\ UNCHANGED <<theme, layout, history, promptInput, isAutoConfiguring,
                   autoCalls, readers, alerts, log, generatedCode, isGenerating,
                   activeTab, genCalls, genLog>>

\* a mutant: the fields are merged into the theme the call captured
autoConfiguredStale(i, resp, ids) ==
    LET call   == autoCalls[i]
        config == autoConfigureTheme(resp)
        k      == IF HasComponents(config) THEN Len(config.components) ELSE 0
        n      == CopySize(call.layout)
        rs     == Alloc(n + 2 + k)
    IN  /\ autoCalls' = RemoveAt(autoCalls, i)
        /\ isAutoConfiguring' = FALSE
        /\ IF HasColor(config) \/ HasComponents(config)
           THEN /\ history' = saveToHistory(call.theme, call.layout, history, rs)
                /\ theme' =
                     IF HasColor(config)
                     THEN ThemeObj(rs[n + 1],
                              Merge(call.theme.val,
                                    [primaryColor |-> config.primaryColor,
                                     stylePreset  |-> OrElse(config, "stylePreset", "modern"),
                                     borderRadius |-> OrElse(config, "borderRadius", "16px"),
                                     darkMode     |-> Nullish(config, "darkMode", FALSE)]))
                     ELSE theme
                /\ layout' =
                     IF HasComponents(config)
                     THEN LayoutObj(rs[n + 2], Drop(rs, n + 2),
                              [j \in 1..k |-> [id |-> ids[j], type |-> config.components[j]]])
                     ELSE layout
                /\ last' = Did("autoApplied", [resp |-> resp, ids |-> ids])
                /\ log' = Logged
           ELSE /\ last' = Did("autoEmpty", [resp |-> resp, ids |-> ids])
                /\ UNCHANGED <<theme, layout, history, log>>
        /\ UNCHANGED <<promptInput, readers, alerts>>

\* a mutant: the layout is replaced only inside if (config.primaryColor)
autoConfiguredNested(i, resp, ids) ==
    LET call   == autoCalls[i]
        config == autoConfigureTheme(resp)
        k      == IF HasComponents(config) THEN Len(config.components) ELSE 0
        n      == CopySize(call.layout)
        rs     == Alloc(n + 2 + k)
    IN  /\ autoCalls' = RemoveAt(autoCalls, i)
        /\ isAutoConfiguring' = FALSE
        /\ IF HasColor(config) \/ HasComponents(config)
           THEN /\ history' = saveToHistory(call.theme, call.layout, history, rs)
                /\ theme' =
                     IF HasColor(config)
                     THEN ThemeObj(rs[n + 1],
                              Merge(theme.val,
                                    [primaryColor |-> config.primaryColor,
                                     stylePreset  |-> OrElse(config, "stylePreset", "modern"),
                                     borderRadius |-> OrElse(config, "borderRadius", "16px"),
                                     darkMode     |-> Nullish(config, "darkMode", FALSE)]))
                     ELSE theme
                /\ layout' =
                     IF HasColor(config) /\ HasComponents(config)
                     THEN LayoutObj(rs[n + 2], Drop(rs, n + 2),
                              [j \in 1..k |-> [id |-> ids[j], type |-> config.components[j]]])
                     ELSE layout
                /\ last' = Did("autoApplied", [resp |-> resp, ids |-> ids])
                /\ log' = Logged
           ELSE /\ last' = Did("autoEmpty", [resp |-> resp, ids |-> ids])
                /\ UNCHANGED <<theme, layout, history, log>>
        /\ UNCHANGED <<promptInput, readers, alerts>>

\* handleAutoConfig after its await: the i-th pending call, generateContent
\* having done resp and Math.random() giving ids
autoConfigured(i, resp, ids) ==
    LET call   == autoCalls[i]
        config == autoConfigureTheme(resp)
        k      == IF HasComponents(config) THEN Len(config.components) ELSE 0
        n      == CopySize(call.layout)
        rs     == Alloc(n + 2 + k)
    IN  /\ autoCalls' = RemoveAt(autoCalls, i)
        /\ isAutoConfiguring' = FALSE
        /\ IF HasColor(config) \/ HasComponents(config)
           THEN /\ history' = saveToHistory(call.theme, call.layout, history, rs)
                /\ theme' =
                     IF HasColor(config)
                     THEN ThemeObj(rs[n + 1],
                              Merge(theme.val,
                                    [primaryColor |-> config.primaryColor,
                                     stylePreset  |-> OrElse(config, "stylePreset", "modern"),
                                     borderRadius |-> OrElse(config, "borderRadius", "16px"),
                                     darkMode     |-> Nullish(config, "darkMode", FALSE)]))
                     ELSE theme
                /\ layout' =
                     IF HasComponents(config)
                     THEN LayoutObj(rs[n + 2], Drop(rs, n + 2),
                              [j \in 1..k |-> [id |-> ids[j], type |-> config.components[j]]])
                     ELSE layout
                /\ last' = Did("autoApplied", [resp |-> resp, ids |-> ids])
                /\ log' = Logged
           ELSE /\ last' = Did("autoEmpty", [resp |-> resp, ids |-> ids])
                /\ UNCHANGED <<theme, layout, history, log>>
        /\ UNCHANGED <<promptInput, readers, alerts>>

\* the ids Math.random() gives to the sections of an answer
IdsFor(resp) ==
    LET config == autoConfigureTheme(resp)
    IN  [1..(IF HasComponents(config) THEN Len(config.components) ELSE 0) -> RandomIds]

(* ------------------------- the specifications -------------------------- *)

\* the handlers of the configuration leave the code generation alone
Quiet == UNCHANGED genVars

Tick == steps' = steps + 1 /\ UNCHANGED <<others, run>> /\ Quiet

UpdateTheme ==
    /\ steps < MaxSteps
    /\ \E updates \in ThemeUpdates(theme.val) : updateTheme(updates)
    /\ Tick

AddComponent ==
    /\ steps < MaxSteps
    /\ \E type \in AddTypes, id \in RandomIds : addComponent(type, id)
    /\ Tick

RemoveComponent ==
    /\ steps < MaxSteps
    /\ \E id \in RemoveIds(layout) : removeComponent(id)
    /\ Tick

Undo == steps < MaxSteps /\ undo /\ Tick

Redo == steps < MaxSteps /\ redo /\ Tick

SetPromptInput ==
    /\ steps < MaxSteps
    /\ \E value \in Prompts \ {promptInput} : setPromptInput(value)
    /\ Tick

HandleFileImport == steps < MaxSteps /\ handleFileImport /\ Tick

Onload ==
    /\ steps < MaxSteps
    /\ \E i \in 1..Len(readers), doc \in Documents : onload(i, doc)
    /\ Tick

HandleAutoConfig ==
    /\ steps < MaxSteps
    /\ \E client \in Clients : handleAutoConfig(client)
    /\ Tick

AutoConfigured ==
    /\ steps < MaxSteps
    /\ \E i \in 1..Len(autoCalls), resp \in Responses :
          \E ids \in IdsFor(resp) : autoConfigured(i, resp, ids)
    /\ Tick

Next ==
    \/ UpdateTheme
    \/ AddComponent
    \/ RemoveComponent
    \/ Undo
    \/ Redo
    \/ SetPromptInput
    \/ HandleFileImport
    \/ Onload
    \/ HandleAutoConfig
    \/ AutoConfigured

Spec == Init /\ [][Next]_vars

(* A long run: the dark-mode button is pressed QuietSteps times, which all   *)
(* but fills the history; then it is pressed further, and at most MaxOthers  *)
(* other handlers run in between.                                            *)

LongTick == steps' = steps + 1 /\ others' = others + 1 /\ UNCHANGED run /\ Quiet

Busy == steps >= QuietSteps /\ steps < MaxLongSteps /\ others < MaxOthers

ValidDocument ==
    [kind |-> "json", data |-> [theme |-> ImportedTheme, layout |-> ImportedLayout]]

ColorResponse ==
    [kind |-> "json", json |-> [primaryColor |-> "#ff0055", borderRadius |-> "99px",
                                stylePreset |-> "brutal", darkMode |-> FALSE]]

LongToggle ==
    /\ steps < MaxLongSteps
    /\ updateTheme([darkMode |-> ~DarkOf(theme.val)])
    /\ Tick

LongSetPromptInput ==
    /\ steps >= QuietSteps /\ steps < MaxLongSteps
    /\ promptInput = <<>>
    /\ setPromptInput(<<"c">>)
    /\ Tick

LongAddComponent ==
    /\ Busy
    /\ addComponent("pricing", "r1")
    /\ LongTick

LongRemoveComponent ==
    /\ Busy
    /\ removeComponent("3")
    /\ LongTick

LongUndo == Busy /\ undo /\ LongTick

LongRedo == Busy /\ redo /\ LongTick

LongHandleFileImport ==
    /\ Busy
    /\ handleFileImport
    /\ LongTick

LongOnload ==
    /\ Busy
    /\ \E i \in 1..Len(readers), doc \in {ValidDocument, [kind |-> "garbage"]} : onload(i, doc)
    /\ LongTick

LongHandleAutoConfig ==
    /\ Busy
    /\ handleAutoConfig("ok")
    /\ LongTick

LongAutoConfigured ==
    /\ Busy
    /\ \E i \in 1..Len(autoCalls), resp \in Responses :
          \E ids \in IdsFor(resp) : autoConfigured(i, resp, ids)
    /\ LongTick

NextLong ==
    \/ LongToggle
    \/ LongSetPromptInput
    \/ LongAddComponent
    \/ LongRemoveComponent
    \/ LongUndo
    \/ LongRedo
    \/ LongHandleFileImport
    \/ LongOnload
    \/ LongHandleAutoConfig
    \/ LongAutoConfigured

SpecLong == Init /\ [][NextLong]_vars

(* Deep undo: dark-mode toggles and added sections, undone and redone.  The *)
(* ghost `run` follows a run of consecutive undos and the redos after it:  *)
(* base is what the first undo found, lives the live snapshot each undo    *)
(* found, redos the number of redos made since.                            *)

NoRun == [base |-> <<>>, lives |-> <<>>, redos |-> 0]

RunAfterUndo ==
    IF history.past = <<>> THEN NoRun
    ELSE IF run.base # <<>> /\ run.redos = 0
    THEN [run EXCEPT !.lives = Append(@, Val(Live))]
    ELSE [base  |-> <<[past |-> Vals(history.past), live |-> Val(Live),
                       future |-> Vals(history.future)]>>,
          lives |-> <<Val(Live)>>,
          redos |-> 0]

RunAfterRedo ==
    IF run.base # <<>> /\ run.redos < Len(run.lives)
    THEN [run EXCEPT !.redos = @ + 1]
    ELSE NoRun

DeepTick(r) == steps' = steps + 1 /\ run' = r /\ UNCHANGED others /\ Quiet

DeepToggle ==
    /\ steps < MaxDeepSteps
    /\ updateTheme([darkMode |-> ~DarkOf(theme.val)])
    /\ DeepTick(NoRun)

DeepAddComponent ==
    /\ steps < MaxDeepSteps
    /\ addComponent("pricing", "r1")
    /\ DeepTick(NoRun)

DeepUndo == steps < MaxDeepSteps /\ undo /\ DeepTick(RunAfterUndo)

DeepRedo == steps < MaxDeepSteps /\ redo /\ DeepTick(RunAfterRedo)

NextDeep ==
    \/ DeepToggle
    \/ DeepAddComponent
    \/ DeepUndo
    \/ DeepRedo

SpecDeep == Init /\ [][NextDeep]_vars

(* The AI operations: at most MaxEvents user events (a button, a key, a    *)
(* chosen file), and the completions of what they started: the completions *)
(* are not counted, every call that is outstanding may complete.           *)

EventTick == steps' = steps + 1 /\ others' = others + 1 /\ UNCHANGED run

\* an answer with a primaryColor and nothing else
BareColorResponse == [kind |-> "json", json |-> [primaryColor |-> "#6366f1"]]

AIToggle ==
    /\ others < MaxEvents
    /\ updateTheme([darkMode |-> ~DarkOf(theme.val)])
    /\ EventTick /\ Quiet

AIUndo == others < MaxEvents /\ undo /\ EventTick /\ Quiet

AISetPromptInput ==
    /\ others < MaxEvents
    /\ promptInput = <<>>
    /\ setPromptInput(<<"c">>)
    /\ Tick

AIHandleFileImport ==
    /\ others < MaxEvents
    /\ handleFileImport
    /\ EventTick /\ Quiet

AIOnload ==
    /\ \E i \in 1..Len(readers) : onload(i, ValidDocument)
    /\ Tick

AIHandleAutoConfig ==
    /\ others < MaxEvents
    /\ \E client \in Clients : handleAutoConfig(client)
    /\ EventTick /\ Quiet

AIAutoConfigured ==
    /\ \E i \in 1..Len(autoCalls),
          resp \in {ColorResponse, BareColorResponse, [kind |-> "throws"]} :
          autoConfigured(i, resp, <<>>)
    /\ Tick

AIHandleGenerateCode ==
    /\ others < MaxEvents
    /\ \E client \in Clients : handleGenerateCode(client)
    /\ EventTick

AIGenerated ==
    /\ \E i \in 1..Len(genCalls), outcome \in GenOutcomes : generated(i, outcome)
    /\ steps' = steps + 1 /\ UNCHANGED <<others, run>>

AIHandleExport ==
    /\ others < MaxEvents
    /\ handleExport
    /\ EventTick

NextAI ==
    \/ AIToggle
    \/ AIUndo
    \/ AISetPromptInput
    \/ AIHandleFileImport
    \/ AIOnload
    \/ AIHandleAutoConfig
    \/ AIAutoConfigured
    \/ AIHandleGenerateCode
    \/ AIGenerated
    \/ AIHandleExport

SpecAI == Init /\ [][NextAI]_vars

\* a call that is outstanding completes: the promise of generateContent
\* settles and the continuation after the await runs
SpecAIFair ==
    /\ SpecAI
    /\ WF_vars(AIGenerated)
    /\ WF_vars(AIAutoConfigured)

(* ------------------------------ the claims ----------------------------- *)

SyncEdits == {"updateTheme", "addComponent", "removeComponent"}

\* the handlers that checkpoint: the edits, an accepted import, an applied
\* auto-configuration
Mutations == SyncEdits \cup {"import", "autoApplied"}

Front(s) == SubSeq(s, 1, Len(s) - 1)

NewestPast == Val(history.past[Len(history.past)])

\* C1: in every reachable state past holds at most 30 entries.
C1_PastAtMost30 == Len(history.past) <= 30

\* the history is full and a checkpoint has evicted its oldest entry
C1_Witness ==
    /\ Len(history.past) = 30
    /\ Len(log.pre) > 30
    /\ last.op \in Mutations

\* C2: after updateTheme, addComponent or removeComponent the newest entry of
\* past is the live snapshot the edit found, past is the past it found with
\* that entry appended (the oldest dropped beyond 30), and future is empty;
\* the entry does not show the edit.
C2_EditCheckpointsBefore ==
    last.op \in SyncEdits =>
        /\ history.past # <<>>
        /\ NewestPast = last.live
        /\ LET p == Append(last.past, last.live)
           IN  Vals(history.past) = IF Len(p) > 30 THEN Tail(p) ELSE p
        /\ history.future = <<>>
        /\ (Val(Live) # last.live => NewestPast # Val(Live))

\* an edit that changed the live snapshot, made after an undo
C2_Witness ==
    /\ last.op \in SyncEdits
    /\ last.future # <<>>
    /\ Val(Live) # last.live

\* C3: an undo right after a checkpointed mutation makes the snapshot that
\* was live before the mutation live again; a redo right after an undo makes
\* the snapshot that was live before the undo live again and gives past and
\* future the values they had before the undo.
C3_UndoRedoInverse ==
    [][ /\ (last.op \in Mutations /\ last'.op = "undo") => Val(Live)' = last.live
        /\ (last.op = "undo" /\ last.past # <<>> /\ last'.op = "redo") =>
              /\ Val(Live)' = last.live
              /\ Vals(history.past)' = last.past
              /\ Vals(history.future)' = last.future ]_vars

\* C4: a checkpointed mutation that finds future non-empty leaves it empty.
C4_MutationClearsFuture ==
    (last.op \in Mutations /\ last.future # <<>>) => history.future = <<>>

\* an import or an auto-configuration applied after an undo
C4_Witness ==
    /\ last.op \in {"import", "autoApplied"}
    /\ last.future # <<>>

\* C5: undo with past empty and redo with future empty change neither past,
\* nor future, nor the live theme and layout.
C5_NoOpAtTheEnds ==
    ((last.op = "undo" /\ last.past = <<>>) \/ (last.op = "redo" /\ last.future = <<>>)) =>
        /\ Vals(history.past) = last.past
        /\ Vals(history.future) = last.future
        /\ Val(Live) = last.live

\* a redo with nothing to redo, in a history that has entries
C5_Witness ==
    /\ last.op = "redo"
    /\ last.future = <<>>
    /\ last.past # <<>>

Stored == <<Live>> \o history.past \o history.future

\* C7: no theme object, layout array or section item belongs to two of: the
\* live snapshot, the entries of past, the entries of future.
C7_NothingShared ==
    \A i, j \in 1..Len(Stored) : i < j => SnapRefs(Stored[i]) \cap SnapRefs(Stored[j]) = {}

\* past and future both hold entries and the live primaryColor was changed
\* after the newest entry of past was recorded
C7_Witness ==
    /\ history.past # <<>>
    /\ history.future # <<>>
    /\ theme.val.primaryColor # history.past[Len(history.past)].theme.val.primaryColor

\* C8: undo with past non-empty removes the last entry of past and makes it
\* live, and puts the live snapshot it found in front of future.
C8_Undo ==
    (last.op = "undo" /\ last.past # <<>>) =>
        /\ Vals(history.past) = Front(last.past)
        /\ Vals(history.future) = <<last.live>> \o last.future
        /\ Val(Live) = last.past[Len(last.past)]

\* a second undo in a row: entries stay in past, future was not empty
C8_Witness ==
    /\ last.op = "undo"
    /\ Len(last.past) >= 2
    /\ last.future # <<>>

\* C9: redo with future non-empty removes the first entry of future and
\* makes it live, and appends the live snapshot it found to past, which
\* keeps at most 30 entries (the oldest dropped beyond that).
C9_Redo ==
    (last.op = "redo" /\ last.future # <<>>) =>
        /\ Vals(history.future) = Tail(last.future)
        /\ LET p == Append(last.past, last.live)
           IN  Vals(history.past) = IF Len(p) > 30 THEN Tail(p) ELSE p
        /\ Len(history.past) <= 30
        /\ Val(Live) = last.future[1]

\* a redo that fills past to its 30 entries
C9_Witness ==
    /\ last.op = "redo"
    /\ last.future # <<>>
    /\ Len(history.past) = 30

\* C10: the entry an applied auto-configuration appends to past is the live
\* snapshot it found when it was applied.
C10_AutoConfigCheckpointsLive ==
    last.op = "autoApplied" => (history.past # <<>> /\ NewestPast = last.live)

\* the continuation of handleAutoConfig ran
AutoResolved == last.op \in {"autoApplied", "autoEmpty"}

\* the answer carries a primaryColor
RespColor(resp) ==
    /\ resp.kind = "json"
    /\ "primaryColor" \in DOMAIN resp.json
    /\ resp.json.primaryColor # ""

\* the sections the answer recommends
RespSections(resp) ==
    IF resp.kind = "json" /\ "recommendedComponents" \in DOMAIN resp.json
    THEN resp.json.recommendedComponents
    ELSE <<>>

HistoryAndLiveAsFound ==
    /\ Vals(history.past) = last.past
    /\ Vals(history.future) = last.future
    /\ Val(Live) = last.live

\* C11: when the auto-configuration call throws, answers with a text that
\* is not JSON, or answers without a primaryColor and without any
\* recommended section, past, future and the live theme and layout stay as
\* they were.
C11_EmptyAnswerChangesNothing ==
    (AutoResolved /\ ~RespColor(last.arg.resp) /\ RespSections(last.arg.resp) = <<>>) =>
        HistoryAndLiveAsFound

\* an answer with an empty list of sections arrives while there is
\* something to redo
C11_Witness ==
    /\ AutoResolved
    /\ last.arg.resp.kind = "json"
    /\ ~RespColor(last.arg.resp)
    /\ RespSections(last.arg.resp) = <<>>
    /\ last.future # <<>>
    /\ last.past # <<>>

\* C12: an answer replaces the layout, by one item per recommended section
\* in the same order, exactly when it recommends a section, and it sets the
\* primaryColor exactly when it carries one; without a primaryColor the
\* whole theme stays, without sections the layout stays.
C12_AppliesWhatIsThere ==
    AutoResolved =>
        LET resp == last.arg.resp
            secs == RespSections(resp)
        IN  /\ secs # <<>> =>
                  StringifyLayout(layout) =
                      [j \in 1..Len(secs) |-> [id |-> last.arg.ids[j], type |-> secs[j]]]
            /\ secs = <<>> => StringifyLayout(layout) = last.live.layout
            /\ RespColor(resp) =>
                  /\ theme.val.primaryColor = resp.json.primaryColor
                  /\ theme.val.fontFamily = last.live.theme.fontFamily
            /\ ~RespColor(resp) => theme.val = last.live.theme

\* an answer with sections and no primaryColor was applied
C12_Witness ==
    /\ last.op = "autoApplied"
    /\ ~RespColor(last.arg.resp)
    /\ Len(RespSections(last.arg.resp)) = 2
    /\ Len(layout.items) = 2

\* reader.onload ran
Loaded == last.op \in {"import", "importInvalid", "importFailed"}

\* the document is a JSON object with a theme and a layout
DocComplete(doc) ==
    /\ doc.kind = "json"
    /\ "theme" \in DOMAIN doc.data
    /\ "layout" \in DOMAIN doc.data

\* C13: a document without theme, without layout or that cannot be read is
\* answered with an alert and changes neither past, nor future, nor the live
\* theme and layout.
C13_BadDocumentRejected ==
    (Loaded /\ ~DocComplete(last.arg)) =>
        /\ HistoryAndLiveAsFound
        /\ Len(alerts) = last.alerts + 1

\* a document with a theme and no layout was read after an edit
C13_Witness ==
    /\ Loaded
    /\ last.arg.kind = "json"
    /\ DOMAIN last.arg.data = {"theme"}
    /\ last.past # <<>>

\* C14: a document with theme and layout appends to past the live snapshot
\* found when it is applied, empties future and makes the document's theme
\* and layout live.
C14_ImportCheckpointsLive ==
    (Loaded /\ DocComplete(last.arg)) =>
        /\ LET p == Append(last.past, last.live)
           IN  Vals(history.past) = IF Len(p) > 30 THEN Tail(p) ELSE p
        /\ history.future = <<>>
        /\ Val(Live) = [theme |-> last.arg.data.theme, layout |-> last.arg.data.layout]

\* C15: removeComponent with an id no item has leaves the layout as it was.
C15_RemoveAbsentId ==
    (/\ last.op = "removeComponent"
     /\ \A i \in 1..Len(last.live.layout) : last.live.layout[i].id # last.arg) =>
        StringifyLayout(layout) = last.live.layout

\* an id no item has was removed from a layout with items
C15_Witness ==
    /\ last.op = "removeComponent"
    /\ last.arg = "zz"
    /\ Len(layout.items) >= 3

\* the items s without the first one whose id is id
RECURSIVE WithoutFirst(_, _)
WithoutFirst(s, id) ==
    IF s = <<>> THEN <<>>
    ELSE IF Head(s).id = id THEN Tail(s)
    ELSE <<Head(s)>> \o WithoutFirst(Tail(s), id)

\* C16: removeComponent removes the first item with the id and no other.
C16_RemovesFirstMatchOnly ==
    last.op = "removeComponent" =>
        StringifyLayout(layout) = WithoutFirst(last.live.layout, last.arg)

IdsOf(l) == {l[i].id : i \in 1..Len(l)}

\* C17 as claimed: addComponent appends one item of the given type whose id
\* no item of the layout had.
C17_AppendsWithNewId ==
    last.op = "addComponent" =>
        /\ Len(layout.items) = Len(last.live.layout) + 1
        /\ SubSeq(StringifyLayout(layout), 1, Len(last.live.layout)) = last.live.layout
        /\ layout.items[Len(layout.items)].type = last.arg.type
        /\ layout.items[Len(layout.items)].id \notin IdsOf(last.live.layout)

\* C17: addComponent appends one item, of the given type and with the id
\* Math.random gave, after the items of the layout, which stay as they were.
C17_AppendsOne ==
    last.op = "addComponent" =>
        StringifyLayout(layout) =
            Append(last.live.layout, [id |-> last.arg.id, type |-> last.arg.type])

\* a section of a type the layout already has was added
C17_Witness ==
    /\ last.op = "addComponent"
    /\ \E i \in 1..Len(last.live.layout) : last.live.layout[i].type = last.arg.type
    /\ Len(layout.items) = 4

\* C18: the ids of the items of the live layout are pairwise distinct, and
\* the items undo and redo bring back have the ids they had.
C18_IdsDistinct ==
    /\ \A i, j \in 1..Len(layout.items) :
          i < j => layout.items[i].id # layout.items[j].id
    /\ (last.op = "undo" /\ last.past # <<>>) =>
          StringifyLayout(layout) = last.past[Len(last.past)].layout
    /\ (last.op = "redo" /\ last.future # <<>>) =>
          StringifyLayout(layout) = last.future[1].layout

\* C19: updateTheme gives every field of updates its value and leaves the
\* other fields of the theme and the layout as they were.
C19_UpdateThemeMerges ==
    last.op = "updateTheme" =>
        /\ DOMAIN theme.val = DOMAIN last.live.theme \cup DOMAIN last.arg
        /\ \A f \in DOMAIN last.arg : theme.val[f] = last.arg[f]
        /\ \A f \in DOMAIN last.live.theme \ DOMAIN last.arg :
              theme.val[f] = last.live.theme[f]
        /\ StringifyLayout(layout) = last.live.layout

\* the primaryColor was set in a theme whose darkMode had been switched on
C19_Witness ==
    /\ last.op = "updateTheme"
    /\ DOMAIN last.arg = {"primaryColor"}
    /\ last.live.theme.darkMode
    /\ theme.val.darkMode

\* the default layout followed by a pricing section
WithPricing(l) ==
    /\ Len(l) = 4
    /\ SubSeq(l, 1, 3) = DefaultLayout
    /\ l[4].type = "pricing"

\* C20: from the initial state, addComponent('pricing') gives one entry in
\* past and four items ending in pricing; undo then gives the three default
\* items and one entry in future; redo then gives the four items ending in
\* pricing and an empty future.
C20_Scenario ==
    /\ (steps = 1 /\ last.op = "addComponent" /\ last.arg.type = "pricing") =>
          /\ last.past = <<>> /\ last.future = <<>>
          /\ last.live = [theme |-> DEFAULT_THEME, layout |-> DefaultLayout]
          /\ Len(history.past) = 1
          /\ WithPricing(StringifyLayout(layout))
    /\ (steps = 2 /\ last.op = "undo" /\ WithPricing(last.live.layout)) =>
          /\ StringifyLayout(layout) = DefaultLayout
          /\ Len(history.future) = 1
    /\ (steps = 3 /\ last.op = "redo" /\ last.past = <<>> /\ Len(last.future) = 1
            /\ WithPricing(last.future[1].layout)) =>
          /\ WithPricing(StringifyLayout(layout))
          /\ Len(history.future) = 0

\* the redo of the scenario was done
C20_Witness ==
    /\ steps = 3
    /\ last.op = "redo"
    /\ last.past = <<>>
    /\ Len(last.future) = 1
    /\ WithPricing(StringifyLayout(layout))

Stream == Vals(history.past) \o <<Val(Live)>> \o Vals(history.future)

\* C21: undo and redo keep the sequence past, live, future as it was; the
\* other handlers either leave past and future alone, or append one entry to
\* past, the oldest leaving beyond 30, and empty future.
C21_NothingDiscarded ==
    /\ last.op \in {"undo", "redo"} =>
          Stream = last.past \o <<last.live>> \o last.future
    /\ last.op \notin {"undo", "redo"} =>
          \/ /\ Vals(history.past) = last.past
             /\ Vals(history.future) = last.future
          \/ /\ history.past # <<>>
             /\ Front(Vals(history.past)) =
                    IF Len(last.past) >= 30 THEN Tail(last.past) ELSE last.past
             /\ history.future = <<>>

\* an undo was made with 30 entries in past
C21_Witness ==
    /\ last.op = "undo"
    /\ Len(last.past) = 30
    /\ Len(history.future) = 1
    /\ Val(Live) # last.live

RECURSIVE Reverse(_)
Reverse(s) == IF s = <<>> THEN <<>> ELSE Append(Reverse(Tail(s)), Head(s))

\* C22: during a run of undos future holds the undone snapshots, the one
\* undone last in front; the redos that follow make them live in the reverse
\* order of the undos, and as many redos as undos give back the past, the
\* live snapshot and the future the first undo found.
C22_RedoReversesUndo ==
    run.base # <<>> =>
        LET k == Len(run.lives)
            m == run.redos
            b == run.base[1]
        IN  /\ m = 0 => Vals(history.future) = Reverse(run.lives) \o b.future
            /\ m >= 1 => Val(Live) = run.lives[k - m + 1]
            /\ m = k =>
                  /\ Vals(history.past) = b.past
                  /\ Val(Live) = b.live
                  /\ Vals(history.future) = b.future

\* two undos of different snapshots were redone
C22_Witness ==
    /\ run.base # <<>>
    /\ Len(run.lives) = 2
    /\ run.redos = 2
    /\ run.lives[1] # run.lives[2]
    /\ run.base[1].future = <<>>
    /\ history.future = <<>>

\* C23: each updateTheme, addComponent and removeComponent appends one
\* entry to past, the oldest leaving when past held 30, and empties future,
\* whether or not the call changes the live snapshot.
C23_OneEntryPerEdit ==
    last.op \in SyncEdits =>
        /\ Len(history.past) = IF Len(last.past) = 30 THEN 30 ELSE Len(last.past) + 1
        /\ Front(Vals(history.past)) =
               IF Len(last.past) = 30 THEN Tail(last.past) ELSE last.past
        /\ Len(history.future) = 0

\* a call that changed nothing was made with 30 entries in past
C23_Witness ==
    /\ last.op = "removeComponent"
    /\ Val(Live) = last.live
    /\ Len(last.past) = 30
    /\ NewestPast = Val(Live)

\* C24: the code shown is the answer of the call that resolved last.
C24_LastResolvedWins ==
    genLog.done # <<>> => generatedCode = genLog.done[Len(genLog.done)].code

\* two calls overlapped; the one launched first resolved last
C24_Witness ==
    /\ Len(genLog.done) = 2
    /\ genLog.done[1].n = 2
    /\ genLog.done[2].n = 1
    /\ genLog.done[1].code # genLog.done[2].code
    /\ generatedCode = genLog.done[2].code
    /\ genCalls = <<>>

\* C25: a busy flag that was set is cleared again.
C25_AIResolves ==
    /\ isAutoConfiguring ~> ~isAutoConfiguring
    /\ isGenerating ~> ~isGenerating

\* C26: past and future together hold at most 30 entries, and undo and redo
\* keep their number.
C26_SumAtMost30 ==
    /\ Len(history.past) + Len(history.future) <= 30
    /\ last.op \in {"undo", "redo"} =>
          Len(history.past) + Len(history.future) = Len(last.past) + Len(last.future)

\* a full history was undone twice and redone once
C26_Witness ==
    /\ last.op = "redo"
    /\ Len(last.past) = 28
    /\ Len(history.past) = 29
    /\ Len(history.future) = 1

FieldOr(j, k, d) == IF k \in DOMAIN j THEN j[k] ELSE d

\* C27: an answer with a primaryColor gives the theme its primaryColor,
\* stylePreset, borderRadius and darkMode, 'modern', '16px' and false
\* standing in for the ones it lacks; fontFamily stays as it is when the
\* answer is applied.
C27_ThemeFromAnswer ==
    (last.op = "autoApplied" /\ RespColor(last.arg.resp)) =>
        LET j == last.arg.resp.json
        IN  theme.val = [primaryColor |-> j.primaryColor,
                         stylePreset  |-> FieldOr(j, "stylePreset", "modern"),
                         borderRadius |-> FieldOr(j, "borderRadius", "16px"),
                         darkMode     |-> FieldOr(j, "darkMode", FALSE),
                         fontFamily   |-> last.live.theme.fontFamily]

\* an answer with only a primaryColor was applied to a theme that an import
\* had changed while the call was outstanding
C27_Witness ==
    /\ last.op = "autoApplied"
    /\ DOMAIN last.arg.resp.json = {"primaryColor"}
    /\ last.live.theme.fontFamily = "Roboto"
    /\ last.live.theme.darkMode
    /\ theme.val.fontFamily = "Roboto"
    /\ ~theme.val.darkMode
    /\ NewestPast.theme.fontFamily = "Inter"

\* C28: isGenerating is true exactly when a generation call is outstanding.
C28_BusyWhileOutstanding == isGenerating <=> genCalls # <<>>

\* C29: at most one auto-configuration call is outstanding, isAutoConfiguring
\* is true while it is, and a call starts only when isAutoConfiguring is
\* false and the prompt is not blank.
C29_OneAutoConfig ==
    /\ [](Len(autoCalls) <= 1 /\ (autoCalls # <<>> => isAutoConfiguring))
    /\ [][Len(autoCalls') > Len(autoCalls) =>
              (~isAutoConfiguring /\ Trim(promptInput) # <<>>)]_vars

\* a call is outstanding and the prompt has been blanked since
C29_Witness ==
    /\ Len(autoCalls) = 1
    /\ isAutoConfiguring
    /\ last.op = "setPromptInput"
    /\ Trim(promptInput) = <<>>

\* C30: handleGenerateCode, its completion and handleExport leave past,
\* future and the live snapshot as they were; the call gets the theme and
\* the layout that were live when it was launched, the file the live ones.
C30_GenerationReadsOnly ==
    /\ last.op \in {"handleGenerateCode", "generated", "handleExport"} =>
          HistoryAndLiveAsFound
    /\ (last.op = "handleGenerateCode" /\ last.arg = "ok") =>
          /\ genCalls[Len(genCalls)].theme = last.live.theme
          /\ genCalls[Len(genCalls)].components = last.live.layout
    /\ last.op = "handleExport" => downloads[Len(downloads)] = last.live

\* a call completed after the live snapshot had changed, with entries in
\* past and in future
C30_Witness ==
    /\ last.op = "generated"
    /\ last.past # <<>>
    /\ last.future # <<>>
    /\ generatedCode = "<A/>"

====
